---- MODULE Spec2Model ----
(***************************************************************************)
(* The outbound event queue of the browser tracker                         *)
(* (libraries/browser-tracker-core/src/tracker/out_queue.ts,               *)
(* OutQueueManager): queue store, oversized-event bypass, batch selection, *)
(* retry classification and the single-flight drain loop, as a state       *)
(* machine whose steps are the public calls and the asynchronous           *)
(* completion handlers (XHR readystatechange, timers, image events).       *)
(***************************************************************************)
EXTENDS Integers, Sequences, FiniteSets, TLC

VARIABLES
  cfg,                 \* constructor arguments and resolved transport (immutable)
  useLocalStorage,     \* mutable through setUseLocalStorage
  anonymousTracking,   \* mutable through setAnonymousTracking
  bufferSize,          \* mutable through setBufferSize
  configCollectorUrl,  \* TRUE when configCollectorUrl is a string
  executingQueue,      \* the single-flight flag
  outQueue,            \* the in-memory queue
  idServiceCalled,     \* the one-shot preflight flag
  stored,              \* the value under queueName in localStorage
  net,                 \* requests, timers and images still outstanding
  nextId,              \* number of enqueueRequest calls made so far, plus one
  sentQ,               \* ids transmitted so far as members of a queue attempt
  sentD,               \* ids transmitted so far by the oversized bypass
  clean,               \* so far: POST mode with persistence, only enqueueRequest
                       \* calls, every localStorage write accepted
  synced,              \* the last change of the queue was followed by a
                       \* localStorage write that was accepted
  act,                 \* the handler that ran in the last step, with its inputs
  ev                   \* what that handler did: sends, callbacks, throws, in order

vars == <<cfg, useLocalStorage, anonymousTracking, bufferSize, configCollectorUrl,
          executingQueue, outQueue, idServiceCalled, stored, net, nextId,
          sentQ, sentD, clean, synced, act, ev>>

(***************************************************************************)
(* Bounds of the model.                                                    *)
(***************************************************************************)
MaxEnqueue == 2
MaxNet == 3

(***************************************************************************)
(* Values.                                                                 *)
(***************************************************************************)
\* A queue entry.  k: "post" a PostEvent {evt, bytes}; "get" a querystring;
\* "num" a number, "null" null, "obj" an object without evt (the last three
\* can only come from a corrupted persisted queue).  id > 0 numbers the
\* enqueueRequest call that produced it, id < 0 marks a record persisted by
\* an earlier page load.
Entry(k, id, bytes) == [k |-> k, id |-> id, bytes |-> bytes]

\* typeof of a queue entry
TypeOf(e) == CASE e.k = "get" -> "string"
               [] e.k = "num" -> "number"
               [] OTHER -> "object"

Min(a, b) == IF a < b THEN a ELSE b

\* Array.prototype.slice(0, n)
Slice(q, n) == SubSeq(q, 1, Min(Len(q), n))

\* the array left after n calls of shift()
Shift(q, n) == SubSeq(q, Min(Len(q), n) + 1, Len(q))

Ids(batch) == {batch[i].id : i \in 1..Len(batch)}

RECURSIVE SumBytes(_)
SumBytes(batch) == IF batch = <<>> THEN 0 ELSE Head(batch).bytes + SumBytes(Tail(batch))

(***************************************************************************)
(* Construction: transport selection, buffer size, load of the persisted   *)
(* queue (lines 70-128).                                                   *)
(***************************************************************************)
\* eventMethod is a string, a boolean or undefined
EventMethod(ty, s, b) == [ty |-> ty, s |-> s, b |-> b]

\* String.prototype.toLowerCase on the strings the model passes
toLowerCase(s) ==
  CASE s = "POST" -> "post"
    [] s = "GET" -> "get"
    [] s = "Beacon" -> "beacon"
    [] s = "TRUE" -> "true"
    [] OTHER -> s

\* line 76
LowerEventMethod(em) == IF em.ty = "string" THEN [em EXCEPT !.s = toLowerCase(em.s)] ELSE em

IsStr(em, s) == em.ty = "string" /\ em.s = s

\* line 79
isBeaconRequested(em) ==
  (em.ty = "boolean" /\ em.b) \/ IsStr(em, "beacon") \/ IsStr(em, "true")

\* navigator.userAgent.  platform: "iPhone", "Macintosh" or "other"; version:
\* what follows "OS " or "Mac OS X ", "digits" as in "13_1" or "letters" for
\* a run of the letter d; major, minor: the numbers a version of digits
\* spells; safari: the text has "Version/... Safari/"; chromium: it has
\* "Chrome" or "Chromium"
UserAgent(platform, version, major, minor, safari, chromium) ==
  [platform |-> platform, version |-> version, major |-> major, minor |-> minor,
   safari |-> safari, chromium |-> chromium]

\* a JavaScript number that may be NaN
NaN == [nan |-> TRUE, n |-> 0]
Num(n) == [nan |-> FALSE, n |-> n]
\* x <= n and x === n on numbers: false when x is NaN
LessOrEqual(x, n) == ~x.nan /\ x.n <= n
StrictEqual(x, n) == ~x.nan /\ x.n = n

\* a piece of text, by what parseInt reads of it: whether it starts with
\* digits, and the integer they spell
Text(digits, n) == [digits |-> digits, n |-> n]
parseInt(text) == IF text.digits THEN Num(text.n) ELSE NaN

\* String.prototype.match: null, or the array of the whole match and the groups
NoMatch == [matched |-> FALSE, groups |-> [i \in 0..3 |-> Text(FALSE, 0)]]
Matched(groups) == [matched |-> TRUE, groups |-> groups]

\* line 591: the pattern is given as a string, so (d+) and [_d]* stand for
\* the letter d; the whole match and group 1 start at "iP"
MatchIos(ua) ==
  IF ua.platform = "iPhone" /\ ua.version = "letters"
  THEN Matched([i \in 0..3 |-> Text(FALSE, 0)])
  ELSE NoMatch

\* line 599: as line 591; the whole match and group 1 start at "Macintosh;"
MatchMacosx(ua) ==
  IF ua.platform = "Macintosh" /\ ua.version = "letters"
  THEN Matched([i \in 0..3 |-> Text(FALSE, 0)])
  ELSE NoMatch

\* lines 590-596
isIosVersionLessThanOrEqualTo(major, ua) ==
  LET match == MatchIos(ua) IN
  IF match.matched THEN LessOrEqual(parseInt(match.groups[0]), major) ELSE FALSE

\* lines 598-604
isMacosxVersionLessThanOrEqualTo(major, minor, ua) ==
  LET match == MatchMacosx(ua) IN
  IF match.matched
  THEN \/ LessOrEqual(parseInt(match.groups[0]), major)
       \/ StrictEqual(parseInt(match.groups[0]), major) /\ LessOrEqual(parseInt(match.groups[1]), minor)
  ELSE FALSE

\* lines 610-612
isChromiumBased(ua) == ua.chromium

\* lines 606-608
isSafari(ua) == ua.safari /\ ~isChromiumBased(ua)

\* lines 584-589
hasWebKitBeaconBug(ua) ==
  \/ isIosVersionLessThanOrEqualTo(13, ua)
  \/ isMacosxVersionLessThanOrEqualTo(10, 15, ua) /\ isSafari(ua)

\* lines 81-86; sendBeacon: navigator.sendBeacon exists; uaBug: hasWebKitBeaconBug(userAgent)
isBeaconAvailable(em, sendBeacon, uaBug) == isBeaconRequested(em) /\ sendBeacon /\ ~uaBug

\* line 87
useBeacon(em, sendBeacon, uaBug) == isBeaconAvailable(em, sendBeacon, uaBug) /\ isBeaconRequested(em)

\* line 89
isGetRequested(em) == IsStr(em, "get")

\* line 93; xhr: the value of useXhr (line 91)
usePost(em, xhr) == ~isGetRequested(em) /\ xhr /\ (IsStr(em, "post") \/ isBeaconRequested(em))

\* line 104: (useLocalStorage && localStorageAccessible() && usePost && bufferSize) || 1
InitialBufferSize(ls, accessible, post, b) ==
  IF ls /\ accessible /\ post /\ b # 0 THEN b ELSE 1

\* The raw value under queueName.  t: "absent" (getItem returns null),
\* "emptystring", "unparsable" (JSON.parse throws), "object" and "number"
\* (parse to a non-array), "array" (parses to the array items).
Raw(t, items) == [t |-> t, items |-> items]

\* JSON.stringify of a queue
JSONstringify(q) == Raw("array", q)

\* lines 106-117: the queue the constructor starts with, and whether an
\* exception escapes it.  getItem and JSON.parse run inside try/catch, which
\* leaves outQueue at its initial []; a parsed non-array is replaced by []
Loaded(queue, threw) == [queue |-> queue, threw |-> threw]

\* lines 106-117 without the try/catch of lines 108-112
LoadQueueUncaught(ls, raw, readThrows) ==
  IF ~ls THEN Loaded(<<>>, FALSE)
  ELSE IF readThrows THEN Loaded(<<>>, TRUE)
  ELSE IF raw.t \in {"absent", "emptystring"} THEN Loaded(<<>>, FALSE)
  ELSE IF raw.t = "unparsable" THEN Loaded(<<>>, TRUE)
  ELSE IF raw.t # "array" THEN Loaded(<<>>, FALSE)
  ELSE Loaded(raw.items, FALSE)

LoadQueue(ls, raw, readThrows) ==
  IF ~ls THEN Loaded(<<>>, FALSE)
  ELSE IF readThrows THEN Loaded(<<>>, FALSE)
  ELSE IF raw.t \in {"absent", "emptystring"} THEN Loaded(<<>>, FALSE)
  ELSE IF raw.t = "unparsable" THEN Loaded(<<>>, FALSE)
  ELSE IF raw.t # "array" THEN Loaded(<<>>, FALSE)
  ELSE Loaded(raw.items, FALSE)

\* line 91.  XMLHttpRequest: the global of that name, "function" (the
\* constructor), "undefined" (the property exists and holds no constructor)
\* or "absent" (no such global); cors: an instance has withCredentials (not
\* probed without the constructor)
useXhr(XMLHttpRequest, cors) == XMLHttpRequest = "function" /\ cors

\* The constructor's arguments and what it resolves from them.
Config(eventMethod, XMLHttpRequest, cors, sendBeacon, userAgent, maxPostBytes, maxGetBytes, useStm, maxLocalStorageQueueSize, retryStatusCodes, dontRetryStatusCodes, idService, retryFailedRequests, flush) ==
  LET em == LowerEventMethod(eventMethod) IN
  [ eventMethod |-> eventMethod,
    sendBeacon |-> sendBeacon,
    userAgent |-> userAgent,
    useBeacon |-> useBeacon(em, sendBeacon, hasWebKitBeaconBug(userAgent)),
    XMLHttpRequest |-> XMLHttpRequest,
    useXhr |-> useXhr(XMLHttpRequest, cors),
    usePost |-> usePost(em, useXhr(XMLHttpRequest, cors)),
    maxPostBytes |-> maxPostBytes,
    maxGetBytes |-> maxGetBytes,
    useStm |-> useStm,
    maxLocalStorageQueueSize |-> maxLocalStorageQueueSize,
    retryStatusCodes |-> retryStatusCodes,
    dontRetryStatusCodes |-> dontRetryStatusCodes,
    idService |-> idService,
    retryFailedRequests |-> retryFailedRequests,
    flushRegistered |-> flush ]

(***************************************************************************)
(* Retry classifier (lines 475-496).                                       *)
(***************************************************************************)
isSuccessfulRequest(statusCode) == statusCode >= 200 /\ statusCode < 300

\* lines 479-496 with the test of dontRetryStatusCodes ahead of that of
\* retryStatusCodes
shouldRetryDontRetryFirst(c, statusCode) ==
  IF isSuccessfulRequest(statusCode) THEN FALSE
  ELSE IF ~c.retryFailedRequests THEN FALSE
  ELSE IF statusCode \in c.dontRetryStatusCodes THEN FALSE
  ELSE TRUE

shouldRetryForStatusCode(c, statusCode) ==
  IF isSuccessfulRequest(statusCode) THEN FALSE
  ELSE IF ~c.retryFailedRequests THEN FALSE
  ELSE IF statusCode \in c.retryStatusCodes THEN TRUE
  ELSE statusCode \notin c.dontRetryStatusCodes

(***************************************************************************)
(* The handlers, as functions of the machine state m: a record of all the  *)
(* variables but act, with the effects of the handler so far (ev), the     *)
(* number of setItem and sendBeacon calls it has made (writes, beacons)    *)
(* and whether every setItem call succeeded (saved).                       *)
(***************************************************************************)
St == [ cfg |-> cfg, useLocalStorage |-> useLocalStorage,
        anonymousTracking |-> anonymousTracking, bufferSize |-> bufferSize,
        configCollectorUrl |-> configCollectorUrl, executingQueue |-> executingQueue,
        outQueue |-> outQueue, idServiceCalled |-> idServiceCalled, stored |-> stored,
        net |-> net, nextId |-> nextId, sentQ |-> sentQ, sentD |-> sentD,
        synced |-> synced, ev |-> <<>>, writes |-> 0, beacons |-> 0, saved |-> TRUE ]

Commit(m) ==
  /\ cfg' = m.cfg
  /\ useLocalStorage' = m.useLocalStorage
  /\ anonymousTracking' = m.anonymousTracking
  /\ bufferSize' = m.bufferSize
  /\ configCollectorUrl' = m.configCollectorUrl
  /\ executingQueue' = m.executingQueue
  /\ outQueue' = m.outQueue
  /\ idServiceCalled' = m.idServiceCalled
  /\ stored' = m.stored
  /\ net' = m.net
  /\ nextId' = m.nextId
  /\ sentQ' = m.sentQ
  /\ sentD' = m.sentD
  /\ synced' = m.synced
  /\ ev' = m.ev

\* One observable effect of a handler.  t: "executeQueue" (the drain loop is
\* entered), "send" (msg: idService, post, get, image, direct), "beacon"
\* (msg: accepted, rejected, threw), "success" and "failure" (the callbacks),
\* "warn" (event too big), "throw".
Ev(t, msg, batch, status, willRetry) ==
  [t |-> t, msg |-> msg, batch |-> batch, status |-> status, willRetry |-> willRetry]

Emit(m, e) == [m EXCEPT !.ev = Append(@, e)]

Throw(m, what) == Emit(m, Ev("throw", what, <<>>, 0, FALSE))

\* An outstanding request.  k: "idService", "xhr" (a queue attempt with its
\* timeout timer), "direct" (an oversized record), "image" (a pixel with its
\* closure variable loading, its timer and its load/error event).
Req(k, n, batch, loading, timer, event) ==
  [k |-> k, n |-> n, batch |-> batch, loading |-> loading, timer |-> timer, event |-> event]

\* helpers.attemptWriteLocalStorage: the value is stored unless setItem throws
attemptWriteLocalStorage(old, value, ok) == IF ok THEN value ELSE old

\* lines 239-241 and 320-326: the write under `if (useLocalStorage)`
Persist(m, ok) ==
  IF m.useLocalStorage
  THEN [m EXCEPT !.stored = attemptWriteLocalStorage(@,
                   JSONstringify(Slice(m.outQueue, m.cfg.maxLocalStorageQueueSize)), ok),
                 !.synced = ok,
                 !.writes = @ + 1,
                 !.saved = @ /\ ok]
  ELSE [m EXCEPT !.synced = FALSE]

\* lines 235-242 without the write of lines 239-241
removeEventsUnsaved(m, numberToSend, ok) == [m EXCEPT !.outQueue = Shift(@, numberToSend)]

\* lines 235-242
removeEventsFromQueue(m, numberToSend, ok) ==
  Persist([m EXCEPT !.outQueue = Shift(@, numberToSend)], ok)

\* lines 340-342
RECURSIVE Failsafe(_)
Failsafe(q) ==
  IF q # <<>> /\ TypeOf(Head(q)) \notin {"string", "object"} THEN Failsafe(Tail(q)) ELSE q

\* lines 340-342 on the state: the loop shifts and writes nothing
FailsafeGuard(m) ==
  [m EXCEPT !.outQueue = Failsafe(@), !.synced = @ /\ Failsafe(m.outQueue) = m.outQueue]

\* lines 204-206; 'evt' in null throws a TypeError
postable(q) == TypeOf(q[1]) = "object" /\ q[1].k = "post"
postableThrows(q) == q[1].k = "null"

\* lines 371-383 with > in the place of >= at line 376
RECURSIVE ChooseUpToCap(_, _, _, _, _)
ChooseUpToCap(queue, numberToSend, byteCount, nan, maxPostBytes) ==
  IF numberToSend < Len(queue)
  THEN LET e == queue[numberToSend + 1] IN
       IF e.k = "null" THEN -1
       ELSE IF nan \/ e.k # "post"
       THEN ChooseUpToCap(queue, numberToSend + 1, byteCount, TRUE, maxPostBytes)
       ELSE IF byteCount + e.bytes > maxPostBytes THEN numberToSend
       ELSE ChooseUpToCap(queue, numberToSend + 1, byteCount + e.bytes, FALSE, maxPostBytes)
  ELSE numberToSend

\* lines 371-383.  A member without bytes makes byteCount NaN, after which
\* the comparison is never true; a null member throws (the result is -1).
RECURSIVE Choose(_, _, _, _, _)
Choose(queue, numberToSend, byteCount, nan, maxPostBytes) ==
  IF numberToSend < Len(queue)
  THEN LET e == queue[numberToSend + 1] IN
       IF e.k = "null" THEN -1
       ELSE IF nan \/ e.k # "post"
       THEN Choose(queue, numberToSend + 1, byteCount, TRUE, maxPostBytes)
       ELSE IF byteCount + e.bytes >= maxPostBytes THEN numberToSend
       ELSE Choose(queue, numberToSend + 1, byteCount + e.bytes, FALSE, maxPostBytes)
  ELSE numberToSend

chooseHowManyToSend(queue, maxPostBytes) == Choose(queue, 0, 0, FALSE, maxPostBytes)

\* lines 555-561: String.prototype.replace of a non-string throws
createGetUrlThrows(m, e) == m.cfg.useStm /\ TypeOf(e) # "string"

\* The inputs a handler draws from its environment.  wr: for each setItem
\* call of the handler, in order, whether localStorage accepts it; bc: for
\* each sendBeacon call, in order, "accepted" (returns true), "rejected"
\* (returns false) or "threw"; status: the status a synchronous request
\* completes with; std: the browser treats a synchronous request as the
\* XMLHttpRequest standard prescribes (assigning timeout throws
\* InvalidAccessError, send() throws NetworkError on a network error and
\* dispatches no readystatechange).
In(wr, bc, status, std) == [wr |-> wr, bc |-> bc, status |-> status, std |-> std]

\* the outcome of the setItem call the handler makes next
WriteOk(m, in) == IF m.useLocalStorage THEN in.wr[m.writes + 1] ELSE TRUE

\* the outcome of the sendBeacon call the handler makes next
BeaconOutcome(m, in) == in.bc[m.beacons + 1]

\* lines 406-408 and 542-548: events[i]['stm'] of a member without evt
attachStmThrows(batch) == \E i \in 1..Len(batch) : batch[i].k # "post"

Transmit(m, batch) == [m EXCEPT !.sentQ = @ \cup Ids(batch)]

(***************************************************************************)
(* executeQueue (lines 338-466) and the readystatechange handler of a      *)
(* queue attempt (lines 245-268), which call each other.                   *)
(***************************************************************************)
RECURSIVE ExecuteQueue(_, _, _)
RECURSIVE OnReadyStateChange(_, _, _, _)

\* lines 244-284 followed by xhr.send: a synchronous request completes
\* inside send(), an asynchronous one stays outstanding with its timer and
\* its readystatechange event to come.  A synchronous request that ends in a
\* network error makes send() throw in a standard browser: no
\* readystatechange is dispatched and the timer stays set.
SendXhr(m, numberToSend, batch, kind, sync, in) ==
  LET m1 == Transmit(Emit(m, Ev("send", kind, batch, 0, FALSE)), batch)
      req == Req("xhr", numberToSend, batch, FALSE, TRUE, TRUE)
  IN IF sync /\ in.status = 0 /\ in.std
     THEN Throw([m1 EXCEPT !.net = Append(@, [req EXCEPT !.event = FALSE])], "NetworkError")
     ELSE IF sync THEN OnReadyStateChange(m1, req, in.status, in)
     ELSE [m1 EXCEPT !.net = Append(@, req)]

\* lines 401-432 with the request of lines 428-430 sent whatever sendBeacon
\* returned
SendBatchAlways(m, numberToSend, sync, in) ==
  LET batch == Slice(m.outQueue, numberToSend) IN
  IF Len(batch) = 0 THEN m
  ELSE IF attachStmThrows(batch) THEN Throw(m, "TypeError")
  ELSE SendXhr(IF m.cfg.useBeacon
               THEN Emit([m EXCEPT !.beacons = @ + 1],
                         Ev("beacon", BeaconOutcome(m, in), batch, 0, FALSE))
               ELSE m,
               numberToSend, batch, "post", sync, in)

\* lines 401-432: the selected batch goes to the beacon first, then to XHR
SendBatch(m, numberToSend, sync, in) ==
  LET batch == Slice(m.outQueue, numberToSend)
      m1 == [m EXCEPT !.beacons = @ + 1]
  IN IF Len(batch) = 0 THEN m
     ELSE IF attachStmThrows(batch) THEN Throw(m, "TypeError")
     ELSE IF m.cfg.useBeacon /\ BeaconOutcome(m, in) = "accepted"
     THEN ExecuteQueue(
            Emit(removeEventsFromQueue(
                   Transmit(Emit(m1, Ev("beacon", "accepted", batch, 0, FALSE)), batch),
                   numberToSend, WriteOk(m, in)),
                 Ev("success", "beacon", batch, 0, FALSE)),
            FALSE, in)
     ELSE SendXhr(IF m.cfg.useBeacon
                  THEN Emit(m1, Ev("beacon", BeaconOutcome(m, in), batch, 0, FALSE))
                  ELSE m,
                  numberToSend, batch, "post", sync, in)

\* lines 369-433
XhrBranch(m, sync, in) ==
  IF postableThrows(m.outQueue) THEN Throw(m, "TypeError")
  ELSE IF postable(m.outQueue)
  THEN LET numberToSend == chooseHowManyToSend(m.outQueue, m.cfg.maxPostBytes) IN
       IF numberToSend < 0 THEN Throw(m, "TypeError")
       ELSE SendBatch(m, numberToSend, sync, in)
  ELSE IF createGetUrlThrows(m, m.outQueue[1]) THEN Throw(m, "TypeError")
  ELSE SendXhr(m, 1, <<m.outQueue[1]>>, "get", sync, in)

\* lines 434-465 without the test of anonymousTracking
ImageBranchAnonymous(m) ==
  IF postableThrows(m.outQueue) THEN Throw(m, "TypeError")
  ELSE IF postable(m.outQueue) THEN [m EXCEPT !.executingQueue = FALSE]
  ELSE IF createGetUrlThrows(m, m.outQueue[1]) THEN Throw(m, "TypeError")
  ELSE LET batch == <<m.outQueue[1]>> IN
       [Transmit(Emit(m, Ev("send", "image", batch, 0, FALSE)), batch)
          EXCEPT !.net = Append(@, Req("image", 1, batch, TRUE, TRUE, TRUE))]

\* lines 434-465
ImageBranch(m) ==
  IF m.anonymousTracking THEN [m EXCEPT !.executingQueue = FALSE]
  ELSE IF postableThrows(m.outQueue) THEN Throw(m, "TypeError")
  ELSE IF postable(m.outQueue) THEN [m EXCEPT !.executingQueue = FALSE]
  ELSE IF createGetUrlThrows(m, m.outQueue[1]) THEN Throw(m, "TypeError")
  ELSE LET batch == <<m.outQueue[1]>> IN
       [Transmit(Emit(m, Ev("send", "image", batch, 0, FALSE)), batch)
          EXCEPT !.net = Append(@, Req("image", 1, batch, TRUE, TRUE, TRUE))]

\* lines 356-367.  new XMLHttpRequest() (line 505) throws without the
\* constructor, ReferenceError when there is no such global and TypeError
\* when the global holds no constructor; xhr.timeout = connectionTimeout (line 359) throws on a
\* synchronous request in a standard browser, after idServiceCalled is set.
\* Where the assignment is accepted the synchronous request completes inside
\* send().
Preflight(m, sync, in) ==
  LET m0 == [m EXCEPT !.idServiceCalled = TRUE]
      m1 == Emit(m0, Ev("send", "idService", <<>>, 0, FALSE))
  IN IF m.cfg.XMLHttpRequest = "absent" THEN Throw(m, "ReferenceError")
     ELSE IF m.cfg.XMLHttpRequest = "undefined" THEN Throw(m, "TypeError")
     ELSE IF sync /\ in.std THEN Throw(m0, "InvalidAccessError")
     ELSE IF sync THEN ExecuteQueue(m1, FALSE, in)
     ELSE [m1 EXCEPT !.net = Append(@, Req("idService", 0, <<>>, FALSE, FALSE, FALSE))]

\* lines 338-466 with executingQueue = true (line 354) ahead of the url test
ExecuteQueueFlagFirst(m, sync, in) ==
  LET m1 == Emit(FailsafeGuard(m), Ev("executeQueue", "", <<>>, 0, FALSE)) IN
  IF m1.outQueue = <<>> THEN [m1 EXCEPT !.executingQueue = FALSE]
  ELSE LET m2 == [m1 EXCEPT !.executingQueue = TRUE] IN
       IF ~m2.configCollectorUrl THEN Throw(m2, "No collector configured")
       ELSE IF m2.cfg.idService /\ ~m2.idServiceCalled THEN Preflight(m2, sync, in)
       ELSE IF m2.cfg.useXhr THEN XhrBranch(m2, sync, in)
       ELSE ImageBranch(m2)

ExecuteQueue(m, sync, in) ==
  LET m1 == Emit(FailsafeGuard(m), Ev("executeQueue", "", <<>>, 0, FALSE)) IN
  IF m1.outQueue = <<>> THEN [m1 EXCEPT !.executingQueue = FALSE]
  ELSE IF ~m1.configCollectorUrl THEN Throw(m1, "No collector configured")
  ELSE LET m2 == [m1 EXCEPT !.executingQueue = TRUE] IN
       IF m2.cfg.idService /\ ~m2.idServiceCalled THEN Preflight(m2, sync, in)
       ELSE IF m2.cfg.useXhr THEN XhrBranch(m2, sync, in)
       ELSE ImageBranch(m2)

\* lines 245-268 with executeQueue() called at the end of the failure branch
OnReadyStateChangeContinue(m, req, status, in) ==
  IF isSuccessfulRequest(status)
  THEN ExecuteQueue(Emit(removeEventsFromQueue(m, req.n, WriteOk(m, in)),
                         Ev("success", "xhr", req.batch, status, FALSE)),
                    FALSE, in)
  ELSE LET willRetry == shouldRetryForStatusCode(m.cfg, status)
           m1 == IF ~willRetry THEN removeEventsFromQueue(m, req.n, WriteOk(m, in)) ELSE m
       IN ExecuteQueue([Emit(m1, Ev("failure", "statusText", req.batch, status, willRetry))
                          EXCEPT !.executingQueue = FALSE],
                       FALSE, in)

\* lines 245-268 without removeEventsFromQueue in the failure branch
OnReadyStateChangeKeep(m, req, status, in) ==
  IF isSuccessfulRequest(status)
  THEN ExecuteQueue(Emit(removeEventsFromQueue(m, req.n, WriteOk(m, in)),
                         Ev("success", "xhr", req.batch, status, FALSE)),
                    FALSE, in)
  ELSE LET willRetry == shouldRetryForStatusCode(m.cfg, status)
       IN [Emit(m, Ev("failure", "statusText", req.batch, status, willRetry))
             EXCEPT !.executingQueue = FALSE]

\* lines 245-268, for readyState 4
OnReadyStateChange(m, req, status, in) ==
  IF isSuccessfulRequest(status)
  THEN ExecuteQueue(Emit(removeEventsFromQueue(m, req.n, WriteOk(m, in)),
                         Ev("success", "xhr", req.batch, status, FALSE)),
                    FALSE, in)
  ELSE LET willRetry == shouldRetryForStatusCode(m.cfg, status)
           m1 == IF ~willRetry THEN removeEventsFromQueue(m, req.n, WriteOk(m, in)) ELSE m
       IN [Emit(m1, Ev("failure", "statusText", req.batch, status, willRetry))
             EXCEPT !.executingQueue = FALSE]

\* lines 271-283.  abortFires: xhr.abort() dispatches readystatechange with
\* readyState 4 and status 0 before it returns, as the XMLHttpRequest
\* standard prescribes for a request in flight
OnXhrTimeout(m, req, abortFires, in) ==
  LET m0 == IF abortFires THEN OnReadyStateChange(m, req, 0, in) ELSE m
      m1 == IF ~m.cfg.retryFailedRequests THEN removeEventsFromQueue(m0, req.n, WriteOk(m0, in)) ELSE m0
  IN [Emit(m1, Ev("failure", "timeout", req.batch, 0, m.cfg.retryFailedRequests))
        EXCEPT !.executingQueue = FALSE]

\* lines 213-233 with the record pushed to outQueue as well
sendPostRequestAndQueue(m, body) ==
  [Emit(m, Ev("send", "direct", <<body>>, 0, FALSE))
     EXCEPT !.net = Append(@, Req("direct", 0, <<body>>, FALSE, FALSE, FALSE)),
            !.sentD = @ \cup {body.id},
            !.outQueue = Append(@, body)]

\* lines 213-233
sendPostRequestWithoutQueueing(m, body) ==
  [Emit(m, Ev("send", "direct", <<body>>, 0, FALSE))
     EXCEPT !.net = Append(@, Req("direct", 0, <<body>>, FALSE, FALSE, FALSE)),
            !.sentD = @ \cup {body.id}]

\* lines 217-230 with willRetry taken from shouldRetryForStatusCode
OnDirectReadyStateChangeClassified(m, req, status) ==
  IF isSuccessfulRequest(status)
  THEN Emit(m, Ev("success", "direct", req.batch, status, FALSE))
  ELSE Emit(m, Ev("failure", "direct", req.batch, status,
                  shouldRetryForStatusCode(m.cfg, status)))

\* lines 217-230
OnDirectReadyStateChange(m, req, status) ==
  IF isSuccessfulRequest(status)
  THEN Emit(m, Ev("success", "direct", req.batch, status, FALSE))
  ELSE Emit(m, Ev("failure", "direct", req.batch, status, FALSE))

\* line 329 without its first conjunct
ShouldStartDrainReentrant(m, savedToLocalStorage) ==
  ~savedToLocalStorage \/ Len(m.outQueue) >= m.bufferSize

\* line 329 without the test of savedToLocalStorage
ShouldStartDrainWhenFull(m, savedToLocalStorage) ==
  ~m.executingQueue /\ Len(m.outQueue) >= m.bufferSize

\* line 329
ShouldStartDrain(m, savedToLocalStorage) ==
  ~m.executingQueue /\ (~savedToLocalStorage \/ Len(m.outQueue) >= m.bufferSize)

\* lines 320-331
SaveAndDrain(m, in) ==
  LET m1 == Persist(m, WriteOk(m, in))
      savedToLocalStorage == m.useLocalStorage /\ WriteOk(m, in)
  IN IF ShouldStartDrain(m1, savedToLocalStorage) THEN ExecuteQueue(m1, FALSE, in) ELSE m1

\* Array.prototype.unshift in the place of push
PushFront(q, e) == <<e>> \o q

\* line 301, line 318
Push(q, e) == Append(q, e)

\* lines 289-332.  bytes stands for the size the call measures: of the body
\* in POST mode, of the GET url otherwise
enqueueRequest(m, bytes, in) ==
  LET m0 == [m EXCEPT !.configCollectorUrl = TRUE, !.nextId = @ + 1]
      id == m.nextId
  IN IF m.cfg.usePost
     THEN IF bytes >= m.cfg.maxPostBytes
          THEN sendPostRequestWithoutQueueing(
                 Emit(m0, Ev("warn", "too big", <<>>, 0, FALSE)), Entry("post", id, bytes))
          ELSE SaveAndDrain([m0 EXCEPT !.outQueue = Push(@, Entry("post", id, bytes))], in)
     ELSE IF m.cfg.maxGetBytes > 0 /\ bytes >= m.cfg.maxGetBytes
          THEN LET m1 == Emit(m0, Ev("warn", "too big", <<>>, 0, FALSE)) IN
               IF m.cfg.useXhr
               THEN sendPostRequestWithoutQueueing(m1, Entry("post", id, bytes))
               ELSE m1
          ELSE SaveAndDrain([m0 EXCEPT !.outQueue = Push(@, Entry("get", id, 0))], in)

\* lines 565-569 (the returned executeQueue) and lines 123-127 (the flush hook)
GuardedExecuteQueue(m, sync, in) ==
  IF ~m.executingQueue THEN ExecuteQueue(m, sync, in) ELSE m

RemoveAt(s, i) == SubSeq(s, 1, i - 1) \o SubSeq(s, i + 1, Len(s))

\* lines 439-447
OnImageLoad(m, i, in) ==
  IF ~m.net[i].loading THEN m
  ELSE ExecuteQueue(Persist([m EXCEPT !.net[i].loading = FALSE, !.outQueue = Shift(@, 1)],
                            WriteOk(m, in)),
                    FALSE, in)

\* lines 449-453
OnImageError(m, i) ==
  IF ~m.net[i].loading THEN m
  ELSE [m EXCEPT !.net[i].loading = FALSE, !.executingQueue = FALSE]

\* lines 457-462 without loading = false (line 459)
OnImageTimeoutStillLoading(m, i, in) ==
  IF m.net[i].loading /\ m.executingQueue
  THEN ExecuteQueue(m, FALSE, in)
  ELSE m

\* lines 457-462
OnImageTimeout(m, i, in) ==
  IF m.net[i].loading /\ m.executingQueue
  THEN ExecuteQueue([m EXCEPT !.net[i].loading = FALSE], FALSE, in)
  ELSE m

\* an image with neither its timer nor its event pending can do nothing more
Settle(m) == [m EXCEPT !.net = SelectSeq(@, LAMBDA r : r.k # "image" \/ r.timer \/ r.event)]

(***************************************************************************)
(* The state after construction.                                           *)
(***************************************************************************)
\* the status codes a request completes with (0: network error)
Statuses == {0, 200, 404, 500}

\* requested method, the XMLHttpRequest constructor, its CORS support
PostXhr == <<EventMethod("string", "post", FALSE), "function", TRUE>>
BeaconXhr == <<EventMethod("string", "Beacon", FALSE), "function", TRUE>>
GetXhr == <<EventMethod("string", "get", FALSE), "function", TRUE>>
GetImage == <<EventMethod("string", "get", FALSE), "function", FALSE>>
PostImage == <<EventMethod("string", "post", FALSE), "function", FALSE>>
GetImageOnly == <<EventMethod("string", "get", FALSE), "absent", FALSE>>
GetImageUndefined == <<EventMethod("string", "get", FALSE), "undefined", FALSE>>

\* retryFailedRequests, retryStatusCodes, dontRetryStatusCodes
RetryDefault == <<TRUE, {}, {404}>>
RetryOff == <<FALSE, {}, {}>>
RetryOverride == <<TRUE, {404}, {0, 404}>>
RetryPolicies == {RetryDefault, RetryOff, RetryOverride}

\* maxPostBytes and a non-zero maxGetBytes; maxLocalStorageQueueSize
ByteCap == 3
StorageCap == 2

\* What an earlier page load may have left under queueName: nothing, text
\* that does not parse, a non-array, a queue of well-formed records (one of
\* them as large as the POST cap), a queue with a corrupted head, a queue
\* with a corrupted member behind a well-formed head.
Absent == Raw("absent", <<>>)
Unreadable == {Raw("emptystring", <<>>), Raw("unparsable", <<>>), Raw("object", <<>>),
               Raw("number", <<>>)}
WellFormedPost == {Raw("array", <<Entry("post", -1, 1)>>),
                   Raw("array", <<Entry("post", -1, 1), Entry("post", -2, 1)>>)}
OversizedPost == {Raw("array", <<Entry("post", -1, 1), Entry("post", -2, ByteCap)>>)}
CorruptedPost == {Raw("array", <<Entry("num", 0, 0), Entry("post", -1, 1)>>),
                  Raw("array", <<Entry("null", 0, 0), Entry("post", -1, 1)>>)}
CorruptedBehind == {Raw("array", <<Entry("post", -1, 1), Entry("obj", 0, 0)>>),
                    Raw("array", <<Entry("post", -1, 1), Entry("get", -2, 0)>>)}
WellFormedGet == {Raw("array", <<Entry("get", -1, 0)>>)}
CorruptedGet == {Raw("array", <<Entry("num", 0, 0), Entry("get", -1, 0)>>),
                 Raw("array", <<Entry("obj", 0, 0), Entry("get", -1, 0)>>),
                 Raw("array", <<Entry("null", 0, 0), Entry("get", -1, 0)>>)}

Act(name, bytes, status, flag) ==
  [name |-> name, bytes |-> bytes, status |-> status, flag |-> flag]

\* lines 70-128.  accessible: localStorageAccessible(); readThrows: reading
\* localStorage throws
Construct(c, ls, accessible, b, anon, raw, readThrows) ==
  /\ cfg = [c EXCEPT !.flushRegistered =
              c.useXhr /\ InitialBufferSize(ls, accessible, c.usePost, b) > 1]
  /\ useLocalStorage = ls
  /\ anonymousTracking = anon
  /\ bufferSize = InitialBufferSize(ls, accessible, c.usePost, b)
  /\ configCollectorUrl = FALSE
  /\ executingQueue = FALSE
  /\ outQueue = LoadQueue(ls, raw, readThrows).queue
  /\ idServiceCalled = FALSE
  /\ stored = raw
  /\ net = <<>>
  /\ nextId = 1
  /\ sentQ = {}
  /\ sentD = {}
  /\ clean = (c.usePost /\ ls)
  /\ synced = (ls /\ ~readThrows)
  /\ act = Act("new", 0, 0, readThrows)
  /\ ev = IF LoadQueue(ls, raw, readThrows).threw
          THEN <<Ev("throw", "constructor", <<>>, 0, FALSE)>> ELSE <<>>

\* user agents: Safari on iOS 13 and on macOS 10.15, Chrome on macOS 10.15,
\* a text whose version is the letter d, and a browser outside WebKit
Iphone13 == UserAgent("iPhone", "digits", 13, 1, TRUE, FALSE)
IphoneLetters == UserAgent("iPhone", "letters", 0, 0, TRUE, FALSE)
MacSafari == UserAgent("Macintosh", "digits", 10, 15, TRUE, FALSE)
MacChrome == UserAgent("Macintosh", "digits", 10, 15, TRUE, TRUE)
OtherAgent == UserAgent("other", "digits", 0, 0, FALSE, FALSE)
UserAgents == {Iphone13, IphoneLetters, MacSafari, MacChrome, OtherAgent}

\* a tracker: transport, retry policy, idService, maxGetBytes, useStm
Tracker(tr, pol, ids, mgb, stm) ==
  Config(tr[1], tr[2], tr[3], TRUE, OtherAgent, ByteCap, mgb, stm, StorageCap, pol[2], pol[3], ids, pol[1], FALSE)

InitPost ==
  \/ \E pol \in RetryPolicies :
       Construct(Tracker(PostXhr, pol, FALSE, 0, TRUE), TRUE, TRUE, 2, FALSE, Absent, FALSE)
  \/ \E raw \in WellFormedPost \cup OversizedPost \cup CorruptedPost \cup CorruptedBehind
                  \cup Unreadable :
       Construct(Tracker(PostXhr, RetryDefault, FALSE, 0, TRUE), TRUE, TRUE, 2, FALSE, raw, FALSE)
  \/ \E raw \in {Absent} \cup WellFormedPost :
       Construct(Tracker(PostXhr, RetryDefault, TRUE, 0, TRUE), TRUE, TRUE, 1, FALSE, raw, FALSE)
  \/ Construct(Tracker(PostXhr, RetryDefault, TRUE, 0, TRUE), TRUE, TRUE, 2, FALSE, Absent, FALSE)
  \/ \E ls \in BOOLEAN, accessible \in BOOLEAN :
       Construct(Tracker(PostXhr, RetryOff, FALSE, 0, TRUE), ls, accessible, 2, FALSE,
                 Raw("array", <<Entry("post", -1, 1)>>), ~accessible)

InitBeacon ==
  \/ \E raw \in {Absent} \cup WellFormedPost :
       Construct(Tracker(BeaconXhr, RetryDefault, FALSE, 0, TRUE), TRUE, TRUE, 2, FALSE, raw, FALSE)
  \/ Construct(Tracker(BeaconXhr, RetryOff, TRUE, 0, TRUE), TRUE, TRUE, 1, FALSE, Absent, FALSE)
  \/ \E raw \in CorruptedBehind :
       Construct(Tracker(BeaconXhr, RetryDefault, FALSE, 0, TRUE), TRUE, TRUE, 2, FALSE, raw, FALSE)

InitGet ==
  \/ \E pol \in RetryPolicies, mgb \in {0, ByteCap} :
       Construct(Tracker(GetXhr, pol, FALSE, mgb, TRUE), TRUE, TRUE, 2, FALSE, Absent, FALSE)
  \/ \E raw \in WellFormedGet \cup CorruptedGet, stm \in BOOLEAN :
       Construct(Tracker(GetXhr, RetryDefault, stm, ByteCap, stm), TRUE, TRUE, 1, FALSE, raw, FALSE)

InitImage ==
  \/ \E tr \in {GetImage, PostImage}, anon \in BOOLEAN :
       Construct(Tracker(tr, RetryDefault, FALSE, ByteCap, TRUE), TRUE, TRUE, 2, anon, Absent, FALSE)
  \/ \E raw \in WellFormedGet \cup CorruptedGet, stm \in BOOLEAN :
       Construct(Tracker(GetImage, RetryDefault, stm, 0, stm), TRUE, TRUE, 1, FALSE, raw, FALSE)
  \/ \E tr \in {GetImageOnly, GetImageUndefined}, ids \in BOOLEAN :
       Construct(Tracker(tr, RetryDefault, ids, 0, TRUE), TRUE, TRUE, 1, FALSE,
                 Absent, FALSE)

Init == InitPost \/ InitBeacon \/ InitGet \/ InitImage

(***************************************************************************)
(* The steps: the public calls and the asynchronous completions.           *)
(***************************************************************************)
\* the outcomes of n setItem calls
Writes(n) == IF useLocalStorage THEN [1..n -> BOOLEAN] ELSE {<<>>}

Accepts(n) == [i \in 1..n |-> "accepted"]

Failures == {"rejected", "threw"}

Accepted(bc) == Cardinality({i \in DOMAIN bc : bc[i] = "accepted"})

\* the outcomes of the sendBeacon calls of a handler that may send up to k
\* batches and stops at the first call that is not accepted
BeaconsOnce(k) ==
  IF cfg.useBeacon
  THEN {Accepts(k)} \cup {Accepts(n) \o <<f>> : n \in 0..(k - 1), f \in Failures}
  ELSE {<<>>}

\* the same where the request that follows the first such call completes
\* inside send() and the drain goes on
BeaconsTwice(k) ==
  IF cfg.useBeacon
  THEN {Accepts(k)} \cup
       UNION {{Accepts(n) \o <<f>> \o rest : rest \in BeaconsOnce(k - 1 - n)} :
                n \in 0..(k - 1), f \in Failures}
  ELSE {<<>>}

\* beacon outcomes with the outcomes of the setItem calls: base calls and one
\* more for each accepted batch
WithWrites(beacons, base) ==
  UNION {{In(wr, bc, 0, TRUE) : wr \in Writes(base + Accepted(bc))} : bc \in beacons}

\* the inputs of a handler that may enter the drain loop with up to k batches
\* to send, after base setItem calls of its own
Inputs(k, base) == WithWrites(BeaconsOnce(k), base)

\* a handler that draws nothing
NoInput == In(<<>>, <<>>, 0, TRUE)

\* the call reaches line 320: its record is below the cap of lines 296, 311
ReachesSave(bytes) ==
  IF cfg.usePost THEN bytes < cfg.maxPostBytes
  ELSE ~(cfg.maxGetBytes > 0 /\ bytes >= cfg.maxGetBytes)

\* savedToLocalStorage of lines 320-326 as act records it: false (line 320)
\* unless useLocalStorage is set and the write of line 322 is accepted, and
\* false for a call that returns before line 320
FirstWrite(bytes, in) == ReachesSave(bytes) /\ useLocalStorage /\ in.wr[1]

\* the completion handlers, as act names them
Internal == {"xhrDone", "xhrTimeout", "idServiceDone", "directDone",
             "imageLoad", "imageError", "imageTimeout"}

\* the calls that may start a drain
Triggers == {"enqueueRequest", "executeQueue", "flush"}

\* a step whose handler would leave more than MaxNet requests, timers and
\* images outstanding is not taken: the older ones complete first
Step(name, bytes, status, flag, m) ==
  /\ Len(Settle(m).net) <= MaxNet
  /\ act' = Act(name, bytes, status, flag)
  /\ clean' = (clean /\ m.saved /\ name \in Internal \cup {"enqueueRequest"})
  /\ Commit(Settle(m))

\* the sizes a call may measure: small, just below the cap, at it, above it
Sizes ==
  IF cfg.usePost THEN {1, cfg.maxPostBytes - 1, cfg.maxPostBytes, cfg.maxPostBytes + 1}
  ELSE IF cfg.maxGetBytes > 0 THEN {cfg.maxGetBytes - 1, cfg.maxGetBytes, cfg.maxGetBytes + 1}
  ELSE {1}

EnqueueRequest ==
  /\ nextId <= MaxEnqueue
  /\ \E bytes \in Sizes, in \in Inputs(Len(outQueue) + 1, 1) :
       Step("enqueueRequest", bytes, 0, FirstWrite(bytes, in), enqueueRequest(St, bytes, in))

ExecuteQueuePublic ==
  \E in \in (IF executingQueue THEN {NoInput} ELSE Inputs(Len(outQueue), 0)) :
    /\ in.status = 0
    /\ Step("executeQueue", 0, 0, FALSE, GuardedExecuteQueue(St, FALSE, in))

\* the hook registered with the shared state, called with sync or without;
\* a synchronous request completes, with some status, before send() returns
\* or makes send() throw
FlushHook ==
  /\ cfg.flushRegistered
  /\ \E sync \in BOOLEAN, status \in Statuses, std \in BOOLEAN :
       /\ (~(sync /\ ~executingQueue) => (status = 0 /\ std))
       /\ \E in \in (IF executingQueue THEN {NoInput}
                     ELSE IF sync /\ isSuccessfulRequest(status)
                     THEN WithWrites(BeaconsTwice(Len(outQueue)), 1)
                     ELSE Inputs(Len(outQueue), IF sync THEN 1 ELSE 0)) :
            Step("flush", 0, status, sync,
                 GuardedExecuteQueue(St, sync, [in EXCEPT !.status = status, !.std = std]))

SetUseLocalStorage ==
  \E b \in BOOLEAN :
    /\ b \in BOOLEAN
    /\ Step("setUseLocalStorage", 0, 0, b, [St EXCEPT !.useLocalStorage = b])

SetAnonymousTracking ==
  \E b \in BOOLEAN :
    /\ b \in BOOLEAN
    /\ Step("setAnonymousTracking", 0, 0, b, [St EXCEPT !.anonymousTracking = b])

\* called before the first enqueueRequest; a later call sets the same url
SetCollectorUrl ==
  /\ ~configCollectorUrl
  /\ Step("setCollectorUrl", 0, 0, FALSE, [St EXCEPT !.configCollectorUrl = TRUE])

SetBufferSize ==
  \E n \in 1..2 :
    /\ n \in 1..2
    /\ Step("setBufferSize", n, 0, FALSE, [St EXCEPT !.bufferSize = n])

\* a queue attempt reaches readyState 4
XhrDone ==
  \E i \in 1..Len(net), status \in Statuses :
    /\ net[i].k = "xhr" /\ net[i].event
    /\ \E in \in (IF isSuccessfulRequest(status) THEN Inputs(Len(outQueue), 1)
                  ELSE {In(wr, <<>>, 0, TRUE) : wr \in Writes(1)}) :
         Step("xhrDone", 0, status, FALSE,
              OnReadyStateChange([St EXCEPT !.net = RemoveAt(@, i)], net[i], status, in))

\* the timer of a queue attempt fires; abort() dispatches nothing for a
\* request that is no longer in flight
XhrTimeout ==
  \E i \in 1..Len(net), abortFires \in BOOLEAN, wr \in Writes(2) :
    /\ net[i].k = "xhr" /\ net[i].timer
    /\ abortFires => net[i].event
    /\ Step("xhrTimeout", 0, 0, abortFires,
            OnXhrTimeout([St EXCEPT !.net = RemoveAt(@, i)], net[i], abortFires,
                         In(wr, <<>>, 0, TRUE)))

\* the preflight reaches readyState 4, with any status or by its timeout
IdServiceDone ==
  \E i \in 1..Len(net), in \in Inputs(Len(outQueue), 0) :
    /\ net[i].k = "idService"
    /\ Step("idServiceDone", 0, 0, FALSE,
            ExecuteQueue([St EXCEPT !.net = RemoveAt(@, i)], FALSE, in))

\* an oversized record's request reaches readyState 4
DirectDone ==
  \E i \in 1..Len(net), status \in {200, 500} :
    /\ net[i].k = "direct"
    /\ Step("directDone", 0, status, FALSE,
            OnDirectReadyStateChange([St EXCEPT !.net = RemoveAt(@, i)], net[i], status))

ImageLoad ==
  \E i \in 1..Len(net), wr \in Writes(1) :
    /\ net[i].k = "image" /\ net[i].event
    /\ Step("imageLoad", 0, 0, net[i].loading,
            OnImageLoad([St EXCEPT !.net[i].event = FALSE], i, In(wr, <<>>, 0, TRUE)))

ImageError ==
  \E i \in 1..Len(net) :
    /\ net[i].k = "image" /\ net[i].event
    /\ Step("imageError", 0, 0, net[i].loading,
            OnImageError([St EXCEPT !.net[i].event = FALSE], i))

\* timers of equal delay fire in the order they were set
ImageTimeout ==
  \E i \in 1..Len(net) :
    /\ net[i].k = "image" /\ net[i].timer
    /\ \A j \in 1..(i - 1) : ~net[j].timer
    /\ Step("imageTimeout", 0, 0, net[i].loading,
            OnImageTimeout([St EXCEPT !.net[i].timer = FALSE], i, NoInput))

Next ==
  \/ EnqueueRequest
  \/ ExecuteQueuePublic
  \/ FlushHook
  \/ SetCollectorUrl
  \/ XhrDone
  \/ XhrTimeout
  \/ IdServiceDone
  \/ DirectDone
  \/ ImageLoad
  \/ ImageError
  \/ ImageTimeout

Spec == Init /\ [][Next]_vars

\* the same with the setters called at any time, from fewer trackers
NextSetters ==
  \/ Next
  \/ SetUseLocalStorage
  \/ SetAnonymousTracking
  \/ SetBufferSize

InitSetters ==
  \/ Construct(Tracker(PostXhr, RetryDefault, TRUE, 0, TRUE), TRUE, TRUE, 2, FALSE, Absent, FALSE)
  \/ Construct(Tracker(GetImage, RetryDefault, FALSE, 0, TRUE), TRUE, TRUE, 1, FALSE, Absent, FALSE)
  \/ Construct(Tracker(GetXhr, RetryDefault, FALSE, 0, TRUE), TRUE, TRUE, 1, TRUE, Absent, FALSE)

SpecSetters == InitSetters /\ [][NextSetters]_vars

(***************************************************************************)
(* The retry classifier on its own: any retryFailedRequests, any two lists *)
(* over ListedCodes, any status of ClassifiedStatuses.                     *)
(***************************************************************************)
ListedCodes == {200, 299, 429, 500}
ClassifiedStatuses == {0, 199, 200, 204, 299, 300, 404, 429, 500}

InitRetry ==
  \E rfr \in BOOLEAN, retry \in SUBSET ListedCodes, dont \in SUBSET ListedCodes :
    Construct(Config(PostXhr[1], PostXhr[2], PostXhr[3], TRUE, OtherAgent, ByteCap, 0, TRUE, StorageCap,
                     retry, dont, FALSE, rfr, FALSE),
              TRUE, TRUE, 1, FALSE, Absent, FALSE)

Classify ==
  \E status \in ClassifiedStatuses :
    /\ status \in Nat
    /\ Step("classify", 0, status, FALSE,
            Emit(St, Ev("classified", "", <<>>, status, shouldRetryForStatusCode(cfg, status))))

SpecRetry == InitRetry /\ [][Classify]_vars

(***************************************************************************)
(* Transport selection on its own: every requested method, every state of  *)
(* the XMLHttpRequest global and of its CORS probe, sendBeacon present or  *)
(* not, every user agent of UserAgents.                                    *)
(***************************************************************************)
Methods ==
  {EventMethod("string", s, FALSE) : s \in {"post", "POST", "get", "Beacon", "true", "put"}}
    \cup {EventMethod("boolean", "", b) : b \in BOOLEAN}
    \cup {EventMethod("undefined", "", FALSE)}

InitTransport ==
  \E em \in Methods, xhr \in {<<"function", TRUE>>, <<"function", FALSE>>, <<"undefined", FALSE>>, <<"absent", FALSE>>},
     sendBeacon \in BOOLEAN, ua \in UserAgents :
    Construct(Config(em, xhr[1], xhr[2], sendBeacon, ua, ByteCap, 0, TRUE, StorageCap,
                     {}, {404}, FALSE, TRUE, FALSE),
              TRUE, TRUE, 1, FALSE, Absent, FALSE)

\* the calls and completions of a tracker that is configured, fed and answered
NextTransport ==
  \/ SetCollectorUrl
  \/ EnqueueRequest
  \/ ExecuteQueuePublic
  \/ XhrDone
  \/ DirectDone
  \/ ImageLoad

SpecTransport == InitTransport /\ [][NextTransport]_vars

(***************************************************************************)
(* What a step did, read from its effects.                                 *)
(***************************************************************************)
\* a delivery attempt on queued records: an XHR, a pixel or a sendBeacon call
IsQueueSend(e) == (e.t = "send" /\ e.msg \in {"post", "get", "image"}) \/ e.t = "beacon"

\* the drain loop was entered
IsEntered(e) == e.t = "executeQueue"

IsPreflight(e) == e.t = "send" /\ e.msg = "idService"

\* the attempts whose completion the drain is waiting for
LiveAttempts ==
  {i \in 1..Len(net) : net[i].k \in {"xhr", "idService"} \/ (net[i].k = "image" /\ net[i].loading)}

\* the record an accepted enqueueRequest call appends
Appended == Entry(IF cfg.usePost THEN "post" ELSE "get", nextId,
                  IF cfg.usePost THEN act'.bytes ELSE 0)

(***************************************************************************)
(* C1: single flight.  At most one attempt of the drain is outstanding,    *)
(* and only while the executing flag is set; a call of enqueueRequest, of  *)
(* the public executeQueue or of the flush hook made while the flag is set *)
(* neither enters the drain loop nor sends anything from the queue, leaves *)
(* the flag set, and changes the queue at most by appending the record     *)
(* enqueueRequest was given.                                               *)
(***************************************************************************)
C1_SingleFlight ==
  /\ [](Cardinality(LiveAttempts) <= 1 /\ (LiveAttempts # {} => executingQueue))
  /\ [][(executingQueue /\ act'.name \in Triggers) =>
          /\ \A i \in 1..Len(ev') :
               ~IsQueueSend(ev'[i]) /\ ~IsEntered(ev'[i]) /\ ~IsPreflight(ev'[i])
          /\ executingQueue'
          /\ LiveAttempts' = LiveAttempts
          /\ outQueue' \in {outQueue} \cup
                (IF act'.name = "enqueueRequest" THEN {Append(outQueue, Appended)} ELSE {})]_vars

\* a record was enqueued while a batch request was outstanding, its write to
\* localStorage failed, and still nothing was sent
C1_Witness ==
  /\ act.name = "enqueueRequest" /\ useLocalStorage /\ ~act.flag
  /\ executingQueue
  /\ \E i \in 1..Len(net) : net[i].k = "xhr"
  /\ outQueue # <<>> /\ outQueue[Len(outQueue)].id = nextId - 1
  /\ \A i \in 1..Len(ev) : ~IsQueueSend(ev[i])

(***************************************************************************)
(* Transmissions.  A record is transmitted when a request carrying it is   *)
(* sent or sendBeacon accepts it.  Records given to enqueueRequest are     *)
(* numbered 1, 2, ... in call order; records loaded at construction have   *)
(* other numbers.                                                          *)
(***************************************************************************)
IsTransmission(e, direct) ==
  \/ e.t = "send" /\ e.msg \in {"post", "get", "image"}
  \/ e.t = "beacon" /\ e.msg = "accepted"
  \/ direct /\ e.t = "send" /\ e.msg = "direct"

\* the records transmitted before the i-th effect of the step being taken
TransmittedBefore(i, direct) ==
  sentQ \cup (IF direct THEN sentD ELSE {}) \cup
  UNION {Ids(ev'[j].batch) : j \in {k \in 1..(i - 1) : IsTransmission(ev'[k], direct)}}

\* no record is transmitted for the first time after a record of a later call
OldestFirst(direct) ==
  \A i \in 1..Len(ev') :
    IsTransmission(ev'[i], direct) =>
      \A a \in Ids(ev'[i].batch) \ TransmittedBefore(i, direct) :
        \A b \in TransmittedBefore(i, direct) : (a > 0 /\ b > 0) => b < a

(***************************************************************************)
(* C2 as stated: FIFO over all the records passed to enqueueRequest,       *)
(* the oversized ones that are sent in a standalone request included.      *)
(***************************************************************************)
C2_Original == [][OldestFirst(TRUE)]_vars

(***************************************************************************)
(* C2, amended: FIFO over the records enqueueRequest appends to the queue. *)
(* Of two such records the one of the earlier call is first transmitted in *)
(* the same request as the other or in an earlier one.  (An oversized      *)
(* record is sent at once, ahead of the records queued before it.)         *)
(***************************************************************************)
C2_Fifo == [][OldestFirst(FALSE)]_vars

\* the second record goes out in a request of its own after the first went
C2_Witness ==
  /\ 1 \in sentQ
  /\ \E i \in 1..Len(ev) :
       IsTransmission(ev[i], FALSE) /\ 2 \in Ids(ev[i].batch) /\ 1 \notin Ids(ev[i].batch)

(***************************************************************************)
(* C3 as stated, first half: in POST mode with persistence, as long as     *)
(* only enqueueRequest has been called and every write to localStorage has *)
(* succeeded, no batch request is sent while the queue (at the moment of   *)
(* the send) holds fewer than bufferSize records.  Stated for the XHR      *)
(* batches of a tracker without beacon.                                    *)
(***************************************************************************)
C3_Original ==
  (clean /\ ~cfg.useBeacon /\ ev # <<>> /\ ev[Len(ev)].t = "send" /\ ev[Len(ev)].msg = "post")
    => Len(outQueue) >= bufferSize

(***************************************************************************)
(* C3, amended: in POST mode an enqueueRequest call that queues its record *)
(* enters the drain loop exactly when no drain is executing and either the *)
(* write to localStorage did not succeed or the queue, with the new        *)
(* record, holds at least bufferSize records; when it does not enter the   *)
(* loop it sends nothing.  (A drain that is running goes on to the records *)
(* that follow, however few they are.)                                     *)
(***************************************************************************)
C3_BufferGate ==
  [][(cfg.usePost /\ act'.name = "enqueueRequest" /\ act'.bytes < cfg.maxPostBytes) =>
       /\ (\E i \in 1..Len(ev') : IsEntered(ev'[i]))
            <=> /\ ~executingQueue
                /\ \/ ~(useLocalStorage /\ act'.flag)
                   \/ Len(outQueue) + 1 >= bufferSize
       /\ (\A i \in 1..Len(ev') : ~IsEntered(ev'[i]))
            => \A i \in 1..Len(ev') : ~IsQueueSend(ev'[i]) /\ ~IsPreflight(ev'[i])]_vars

\* the write failed and the only queued record, fewer than bufferSize, is
\* sent by the call
C3_Witness ==
  /\ cfg.usePost /\ act.name = "enqueueRequest" /\ act.bytes < cfg.maxPostBytes
  /\ useLocalStorage /\ ~act.flag
  /\ Len(outQueue) < bufferSize
  /\ \E i \in 1..Len(ev) : ev[i].t = "send" /\ ev[i].msg = "post" /\ Ids(ev[i].batch) = {nextId - 1}

\* a POST batch the drain loop selected: handed to sendBeacon or sent by XHR
IsPostBatch(e) == (e.t = "send" /\ e.msg = "post") \/ e.t = "beacon"

(***************************************************************************)
(* C4: byte budget.  The byte sizes of the members of every POST batch the *)
(* drain loop selects add up to less than maxPostBytes, unless the batch   *)
(* has exactly one record.                                                 *)
(***************************************************************************)
C4_ByteBudget ==
  \A i \in 1..Len(ev) :
    IsPostBatch(ev[i]) =>
      SumBytes(ev[i].batch) < cfg.maxPostBytes \/ Len(ev[i].batch) = 1

\* a batch of two records stops short of a third that would reach the cap
C4_Witness ==
  \E i \in 1..Len(ev) :
    /\ IsPostBatch(ev[i]) /\ Len(ev[i].batch) = 2
    /\ Len(outQueue) > 2
    /\ SumBytes(ev[i].batch) + outQueue[3].bytes >= cfg.maxPostBytes

(***************************************************************************)
(* C5: the retry classifier.  A 2xx status is never retried; another       *)
(* status is not retried when retryFailedRequests is off; otherwise it is  *)
(* retried when it is in retryStatusCodes, whatever dontRetryStatusCodes   *)
(* says; otherwise it is retried exactly when it is not in                 *)
(* dontRetryStatusCodes.                                                   *)
(***************************************************************************)
C5_RetryClassifier ==
  act.name = "classify" =>
    LET s == act.status
        r == ev[1].willRetry
        ok == s >= 200 /\ s <= 299
    IN /\ ok => ~r
       /\ (~ok /\ ~cfg.retryFailedRequests) => ~r
       /\ (~ok /\ cfg.retryFailedRequests /\ s \in cfg.retryStatusCodes) => r
       /\ (~ok /\ cfg.retryFailedRequests /\ s \notin cfg.retryStatusCodes)
            => (r <=> s \notin cfg.dontRetryStatusCodes)

\* 429 is on both lists and is retried
C5_Witness ==
  /\ act.name = "classify" /\ act.status = 429
  /\ cfg.retryFailedRequests
  /\ 429 \in cfg.retryStatusCodes /\ 429 \in cfg.dontRetryStatusCodes
  /\ ev[1].willRetry

\* the size of the record of the enqueueRequest call being made exceeds the
\* cap of the active transport
Oversized ==
  IF cfg.usePost THEN act'.bytes > cfg.maxPostBytes
  ELSE cfg.maxGetBytes > 0 /\ act'.bytes > cfg.maxGetBytes

IsDirectSend(e, id) == e.t = "send" /\ e.msg = "direct" /\ Ids(e.batch) = {id}

\* What enqueueRequest does with an oversized record.  pixelToo: the
\* standalone request is expected of a tracker without XHR as well.
OversizeHandling(pixelToo) ==
  act'.name = "enqueueRequest" =>
    /\ Oversized =>
         /\ outQueue' = outQueue /\ stored' = stored /\ sentQ' = sentQ
         /\ \A i \in 1..Len(ev') : ~IsQueueSend(ev'[i]) /\ ~IsEntered(ev'[i])
         /\ IF pixelToo \/ cfg.useXhr
            THEN \E i \in 1..Len(ev') : IsDirectSend(ev'[i], nextId)
            ELSE sentD' = sentD /\ net' = net
    /\ (~cfg.usePost /\ cfg.maxGetBytes = 0) =>
         /\ \A i \in 1..Len(ev') : ev'[i].t # "warn" /\ ev'[i].msg # "direct"
         /\ outQueue' # <<>> /\ outQueue'[Len(outQueue')] = Appended

\* a record sent in a standalone request is in neither copy of the queue
DivertedNotQueued ==
  /\ \A i \in 1..Len(outQueue) : outQueue[i].id \notin sentD
  /\ \A i \in 1..Len(stored.items) : stored.items[i].id \notin sentD

(***************************************************************************)
(* C6 as stated: an oversized record is always sent at once in a           *)
(* standalone request and never queued or persisted; with maxGetBytes = 0  *)
(* a GET record is never diverted.                                         *)
(***************************************************************************)
C6_Original == [][OversizeHandling(TRUE)]_vars /\ []DivertedNotQueued

(***************************************************************************)
(* C6, amended: an oversized record is never appended to the queue or to   *)
(* the persisted copy; it is sent at once in a standalone POST request     *)
(* when XHR is in use, and discarded with the warning alone when the       *)
(* tracker sends by pixel; with maxGetBytes = 0 a GET record is never      *)
(* diverted but appended to the queue.                                     *)
(***************************************************************************)
C6_OversizeBypass == [][OversizeHandling(FALSE)]_vars /\ []DivertedNotQueued

\* in POST mode an oversized record went out on its own while an earlier
\* record stayed queued
C6_Witness ==
  /\ cfg.usePost /\ act.name = "enqueueRequest" /\ act.bytes > cfg.maxPostBytes
  /\ \E i \in 1..Len(ev) : IsDirectSend(ev[i], nextId - 1)
  /\ outQueue # <<>> /\ \A i \in 1..Len(outQueue) : outQueue[i].id # nextId - 1
  /\ stored = JSONstringify(outQueue)

\* the failure callback of an attempt on queued records: a completion that is
\* not 2xx, or the timeout
IsAttemptFailure(e) == e.t = "failure" /\ e.msg \in {"statusText", "timeout"}

\* the handler in which an XHR attempt failed cleared the flag and did
\* nothing more after the failure
HaltedOnFailure ==
  \A i \in 1..Len(ev) :
    IsAttemptFailure(ev[i]) =>
      /\ ~executingQueue
      /\ \A j \in (i + 1)..Len(ev) :
           ~IsQueueSend(ev[j]) /\ ~IsEntered(ev[j]) /\ ~IsPreflight(ev[j])

(***************************************************************************)
(* C7: a failed XHR attempt halts the drain.  The handler of a completion  *)
(* that is not 2xx, or of the timeout, leaves the executing flag cleared   *)
(* and sends nothing, whatever it did with the batch; and while the flag   *)
(* is cleared nothing is sent from the queue and no preflight is made      *)
(* except by enqueueRequest, the public executeQueue or the flush hook.    *)
(***************************************************************************)
C7_FailureHalts ==
  /\ []HaltedOnFailure
  /\ [][(~executingQueue /\ \E i \in 1..Len(ev') :
                                IsQueueSend(ev'[i]) \/ IsEntered(ev'[i]) \/ IsPreflight(ev'[i]))
          => act'.name \in Triggers]_vars

\* a batch request completed with 500: the batch is kept, another record
\* waits behind it, and nothing is outstanding
C7_Witness ==
  /\ act.name = "xhrDone" /\ act.status = 500
  /\ ev # <<>> /\ IsAttemptFailure(ev[Len(ev)]) /\ ev[Len(ev)].willRetry
  /\ ~executingQueue
  /\ Len(outQueue) > Len(ev[Len(ev)].batch)
  /\ LiveAttempts = {}

(***************************************************************************)
(* C8: a completion of an XHR attempt that is not 2xx.  The failure        *)
(* callback is called once, with the status, the attempted batch and       *)
(* willRetry as shouldRetryForStatusCode decides for that status; the      *)
(* attempted batch is the front of the queue, which is left as it is when  *)
(* willRetry is true and loses exactly that batch when it is false.        *)
(***************************************************************************)
C8_FailureOutcome ==
  [][/\ \A i \in 1..Len(ev') :
          (ev'[i].t = "failure" /\ ev'[i].msg = "statusText") =>
            ev'[i].willRetry = shouldRetryForStatusCode(cfg, ev'[i].status)
     /\ (act'.name = "xhrDone" /\ ~(act'.status >= 200 /\ act'.status < 300)) =>
          /\ Len(ev') = 1
          /\ ev'[1].t = "failure" /\ ev'[1].msg = "statusText"
          /\ ev'[1].status = act'.status
          /\ ev'[1].batch # <<>>
          /\ ev'[1].batch = SubSeq(outQueue, 1, Len(ev'[1].batch))
          /\ outQueue' = IF ev'[1].willRetry
                         THEN outQueue
                         ELSE SubSeq(outQueue, Len(ev'[1].batch) + 1, Len(outQueue))]_vars

\* a batch failed with 404, which is not retried: it left the queue and the
\* record behind it is now the head
C8_Witness ==
  /\ act.name = "xhrDone" /\ act.status = 404
  /\ Len(ev) = 1 /\ ev[1].t = "failure" /\ ~ev[1].willRetry
  /\ outQueue # <<>>
  /\ \A i \in 1..Len(outQueue) : outQueue[i].id \notin Ids(ev[1].batch)

(***************************************************************************)
(* C9: a 2xx completion of an XHR attempt.  The success callback is called *)
(* with the attempted batch, which is the front of the queue and is        *)
(* removed; then either the queue is empty and the executing flag is       *)
(* cleared, or the drain goes on: the flag stays set and the next batch is *)
(* handed to sendBeacon or sent.                                           *)
(***************************************************************************)
C9_SuccessContinues ==
  [][(act'.name = "xhrDone" /\ act'.status >= 200 /\ act'.status < 300) =>
       /\ ev' # <<>> /\ ev'[1].t = "success"
       /\ ev'[1].batch = SubSeq(outQueue, 1, Len(ev'[1].batch))
       /\ \A i \in 1..Len(outQueue') : outQueue'[i].id \notin Ids(ev'[1].batch)
       /\ IF outQueue' = <<>>
          THEN ~executingQueue'
          ELSE executingQueue' /\ \E i \in 1..Len(ev') : IsQueueSend(ev'[i])]_vars

(***************************************************************************)
(* C10: the load at construction.  With persistence enabled, when reading  *)
(* localStorage throws or the persisted value is absent, does not parse or *)
(* parses to something that is not an array, the queue starts empty; when  *)
(* it parses to an array, the queue starts as that array, in its order.    *)
(* In no case does an exception leave the constructor.                     *)
(***************************************************************************)
C10_ConstructionLoad ==
  act.name = "new" =>
    /\ ev = <<>>
    /\ useLocalStorage =>
         /\ (act.flag \/ stored.t # "array") => outQueue = <<>>
         /\ (~act.flag /\ stored.t = "array") => outQueue = stored.items

\* the persisted value does not parse and the tracker starts with an empty
\* queue
C10_Witness ==
  /\ act.name = "new" /\ useLocalStorage /\ ~act.flag
  /\ stored.t = "unparsable"
  /\ outQueue = <<>> /\ ev = <<>>

\* a record as enqueueRequest stores it: a post record or a querystring
IsWellFormed(e) == e.k \in {"post", "get"}

IsConfigError(e) == e.t = "throw" /\ e.msg = "No collector configured"

\* anything was handed to the network or put in flight
NothingSent ==
  /\ \A i \in 1..Len(ev') : ~IsQueueSend(ev'[i]) /\ ~IsPreflight(ev'[i])
  /\ net' = net /\ sentQ' = sentQ /\ idServiceCalled' = idServiceCalled

(***************************************************************************)
(* C11: the configuration error.  A call of the public executeQueue or of  *)
(* the flush hook that starts a drain while no collector url is set: when  *)
(* the queue holds a string or an object, the call throws 'No collector    *)
(* configured', sends nothing, keeps every well-formed record in its place *)
(* and leaves the executing flag false; when the queue is empty the call   *)
(* throws nothing and leaves the flag false.                               *)
(***************************************************************************)
C11_ConfigError ==
  [][(act'.name \in {"executeQueue", "flush"} /\ ~executingQueue) =>
       /\ (~configCollectorUrl /\ \E i \in 1..Len(outQueue) : TypeOf(outQueue[i]) \in {"string", "object"}) =>
            /\ ev' # <<>> /\ IsConfigError(ev'[Len(ev')])
            /\ NothingSent
            /\ SelectSeq(outQueue', IsWellFormed) = SelectSeq(outQueue, IsWellFormed)
            /\ ~executingQueue'
       /\ outQueue = <<>> =>
            /\ \A i \in 1..Len(ev') : ev'[i].t # "throw"
            /\ NothingSent
            /\ outQueue' = <<>> /\ ~executingQueue']_vars

\* the queue loaded at construction is drained before any url is known
C11_Witness ==
  /\ act.name = "executeQueue" /\ ~configCollectorUrl
  /\ ev # <<>> /\ IsConfigError(ev[Len(ev)])
  /\ \E i \in 1..Len(outQueue) : IsWellFormed(outQueue[i])
  /\ ~executingQueue /\ net = <<>>

\* The preflight to the identity service in the step being taken.
PreflightOnce ==
  LET issued == {i \in 1..Len(ev') : IsPreflight(ev'[i])} IN
  /\ Cardinality(issued) <= 1
  /\ issued # {} <=> (cfg.idService /\ ~idServiceCalled /\ idServiceCalled')
  /\ idServiceCalled => idServiceCalled'
  /\ cfg.idService =>
       \A i \in 1..Len(ev') :
         IsTransmission(ev'[i], FALSE) => idServiceCalled \/ \E j \in issued : j < i
  /\ act'.name = "idServiceDone" => ev' # <<>> /\ IsEntered(ev'[1])

(***************************************************************************)
(* C12: the preflight is made only with an identity-service url, once in   *)
(* the life of the queue, by the drain that marks it as made; no record of *)
(* the queue is sent before it; its completion, with any status, calls     *)
(* executeQueue; it is not repeated.  (The standalone request of an        *)
(* oversized record is not counted as a batch of the queue here.)          *)
(***************************************************************************)
C12_PreflightOnce == [][PreflightOnce]_vars

(***************************************************************************)
(* C13: the transport mode resolved at construction.                       *)
(***************************************************************************)
\* how queued records travel
ResolvedMode(c) ==
  IF c.usePost THEN "POST" ELSE IF c.useXhr THEN "GET by XHR" ELSE "GET by image"

\* the mode the transport table gives: GET when 'get' is requested, else the
\* pixel image without XHR, else POST
TableMode(em, xhr) ==
  IF isGetRequested(LowerEventMethod(em)) THEN (IF xhr THEN "GET by XHR" ELSE "GET by image")
  ELSE IF ~xhr THEN "GET by image"
  ELSE "POST"

\* the user agents the beacon denylist is written for: iOS up to 13, and
\* Safari on macOS up to 10.15
OnDenylist(ua) ==
  /\ ua.version = "digits"
  /\ \/ ua.platform = "iPhone" /\ ua.major <= 13
     \/ /\ ua.platform = "Macintosh"
        /\ ua.major < 10 \/ (ua.major = 10 /\ ua.minor <= 15)
        /\ ua.safari /\ ~ua.chromium

\* C13: for every requested method and capabilities the resolved mode is the
\* one of the transport table, and the beacon fast-path is enabled only if
\* beacon was requested, is supported and the user agent is not on the
\* denylist.
C13_TransportTable ==
  /\ ResolvedMode(cfg) = TableMode(cfg.eventMethod, cfg.useXhr)
  /\ cfg.useBeacon =>
       /\ isBeaconRequested(LowerEventMethod(cfg.eventMethod))
       /\ cfg.sendBeacon
       /\ ~OnDenylist(cfg.userAgent)

(***************************************************************************)
(* C14: anonymous tracking and the pixel image.                            *)
(***************************************************************************)
IsImageSend(e) == e.t = "send" /\ e.msg = "image"

\* the string records a step handed to a transport
GetRecordsSent(e) ==
  IsQueueSend(e) /\ \E i \in 1..Len(e.batch) : TypeOf(e.batch[i]) = "string"

\* C14: while anonymous tracking is active, whether set at construction or
\* by setAnonymousTracking, no step issues a pixel-image request: no image is
\* created, and a GET record that is sent is sent by XHR.
C14_NoPixelWhenAnonymous ==
  [][anonymousTracking' =>
       /\ \A i \in 1..Len(ev') : ~IsImageSend(ev'[i])
       /\ \A i \in 1..Len(ev') : GetRecordsSent(ev'[i]) => ev'[i].msg = "get" /\ cfg.useXhr
       /\ Cardinality({i \in 1..Len(net') : net'[i].k = "image"})
            <= Cardinality({i \in 1..Len(net) : net[i].k = "image"})]_vars

\* a tracker without XHR on which setAnonymousTracking(true) was called after
\* a pixel had gone out: a later drain found a GET record and sent nothing
C14_Witness ==
  /\ ~cfg.useXhr /\ anonymousTracking /\ configCollectorUrl
  /\ sentQ # {}
  /\ outQueue # <<>> /\ TypeOf(outQueue[1]) = "string"
  /\ ev # <<>> /\ IsEntered(ev[Len(ev)])
  /\ ~executingQueue

(***************************************************************************)
(* C15: the persisted copy of the queue.                                   *)
(***************************************************************************)
\* the records a load of the value under queueName gives (lines 106-117)
PersistedRecords == LoadQueue(TRUE, stored, FALSE).queue

PersistedIsPrefix ==
  PersistedRecords = Slice(outQueue, cfg.maxLocalStorageQueueSize)

\* C15 as stated: while persistence is enabled the persisted copy equals the
\* first min(length, maxLocalStorageQueueSize) records of the queue in every
\* state that a call or a completion leaves.
C15_Original == (useLocalStorage /\ act.name # "new") => PersistedIsPrefix

\* C15: while persistence is enabled the persisted copy equals the first
\* min(length, maxLocalStorageQueueSize) records of the queue whenever the
\* last change of the queue was an enqueue or a removal whose write was
\* accepted; a rejected write and the malformed-entry guard leave the copy
\* as it was.
C15_PersistedPrefix == (useLocalStorage /\ synced) => PersistedIsPrefix

\* a queue longer than maxLocalStorageQueueSize, just written by an enqueue
C15_Witness ==
  /\ useLocalStorage /\ synced
  /\ Len(outQueue) > cfg.maxLocalStorageQueueSize
  /\ stored = JSONstringify(Slice(outQueue, cfg.maxLocalStorageQueueSize))
  /\ act.name = "enqueueRequest"

(***************************************************************************)
(* C16: the batch of a POST drain is never empty.                          *)
(***************************************************************************)
\* the drain that ran last in the step issued nothing: no request, no
\* beacon, no preflight, and it raised no error
LastDrainIdle == ev' # <<>> /\ IsEntered(ev'[Len(ev')])

\* C16: a drain in POST mode that finds records in the queue selects at
\* least one of them, also when the head alone reaches maxPostBytes, and
\* issues a request carrying the head; a drain that issues nothing found the
\* queue empty.
C16_HeadIsSent ==
  [][(cfg.usePost /\ configCollectorUrl' /\ LastDrainIdle) => outQueue' = <<>>]_vars

(***************************************************************************)
(* C17: the outcome of a timed-out attempt.                                *)
(***************************************************************************)
IsTimeoutFailure(e) == e.t = "failure" /\ e.msg = "timeout" /\ e.status = 0

\* C17: when the timer of an attempt fires, the failure callback is called
\* with status 0 and message 'timeout', its willRetry is what the retry
\* classifier decides for status 0 under the configured lists, and the batch
\* stays queued exactly when that decision is to retry.  (Stated for a timer
\* whose abort() dispatches no readystatechange.)
C17_TimeoutClassified ==
  [][(act'.name = "xhrTimeout" /\ ~act'.flag) =>
       /\ Len(ev') = 1 /\ IsTimeoutFailure(ev'[1])
       /\ ev'[1].willRetry = shouldRetryForStatusCode(cfg, 0)
       /\ outQueue' = IF shouldRetryForStatusCode(cfg, 0) THEN outQueue
                      ELSE Shift(outQueue, Len(ev'[1].batch))]_vars

(***************************************************************************)
(* C18: one outcome per attempt.                                           *)
(***************************************************************************)
\* the callbacks a step made for an XHR attempt on the queue
AttemptOutcomes ==
  {i \in 1..Len(ev') : /\ ev'[i].t \in {"success", "failure"}
                        /\ ev'[i].msg \in {"xhr", "statusText", "timeout"}}

\* C18: the completion or the timeout of an attempt calls exactly one of the
\* callbacks, once, and removes the attempted batch from the queue at most
\* once, also when the abort() of the timeout completes the request.
C18_OneOutcome ==
  [][act'.name \in {"xhrDone", "xhrTimeout"} =>
       /\ Cardinality(AttemptOutcomes) = 1
       /\ act'.name = "xhrTimeout" =>
            \A i \in AttemptOutcomes :
              outQueue' \in {outQueue, Shift(outQueue, Len(ev'[i].batch))}]_vars

(***************************************************************************)
(* C19: the executing flag is cleared on every halting transition.         *)
(***************************************************************************)
\* no preflight, request, pixel load or timer is outstanding
NothingOutstanding == net = <<>>

\* C19: in every reachable state in which no preflight, request, pixel load
\* or timer is outstanding, the executing flag is false.
C19_FlagCleared == NothingOutstanding => ~executingQueue

(***************************************************************************)
(* C20: the malformed-entry guard of the drain.                            *)
(***************************************************************************)
IsTypeError(e) == e.t = "throw" /\ e.msg = "TypeError"

\* C20: a drain that starts discards every head entry that is neither a POST
\* record (an object with evt) nor a string, be it null, a number or an
\* object without evt, and goes on without raising an error: it leaves the
\* queue empty or headed by a well-formed record, and no TypeError escapes.
C20_MalformedDiscarded ==
  [][(act'.name \in {"executeQueue", "flush"} /\ ~executingQueue) =>
       /\ outQueue' = <<>> \/ IsWellFormed(outQueue'[1])
       /\ \A i \in 1..Len(ev') : ~IsTypeError(ev'[i])]_vars

(***************************************************************************)
(* C21: the beacon fast-path.                                              *)
(***************************************************************************)
IsBeaconOffer(e) == e.t = "beacon"

IsPostRequest(e) == e.t = "send" /\ e.msg = "post"

\* the requests of the step that carry a record of the batch
RequestsFor(batch) ==
  {j \in 1..Len(ev') : IsPostRequest(ev'[j]) /\ Ids(ev'[j].batch) \cap Ids(batch) # {}}

\* the request for the batch is outstanding and the batch heads the queue
AwaitsOutcome(batch) ==
  /\ \E k \in 1..Len(net') : net'[k].k = "xhr" /\ net'[k].batch = batch
  /\ Slice(outQueue', Len(batch)) = batch

\* the batch of every outstanding request heads the queue
BatchesHeld ==
  \A k \in 1..Len(net) :
    net[k].k = "xhr" => Slice(outQueue, Len(net[k].batch)) = net[k].batch

\* C21: with the beacon fast-path enabled every POST batch is offered to the
\* beacon before any request is made for it.  An accepted batch is removed,
\* the success callback fires, the drain goes on and no request is made for
\* the batch.  A batch that the beacon rejects, or on which it throws, goes
\* into exactly one request, and the queue keeps it at its head until the
\* outcome of that request (which the request of a synchronous flush has
\* before send() returns).
C21_BeaconFirst ==
  /\ [](cfg.useBeacon => BatchesHeld)
  /\ [][cfg.useBeacon =>
         /\ \A j \in 1..Len(ev') :
              IsPostRequest(ev'[j]) =>
                /\ j > 1 /\ IsBeaconOffer(ev'[j - 1])
                /\ ev'[j - 1].msg \in {"rejected", "threw"}
                /\ ev'[j - 1].batch = ev'[j].batch
         /\ \A i \in 1..Len(ev') :
              IsBeaconOffer(ev'[i]) =>
                IF ev'[i].msg = "accepted"
                THEN /\ i + 2 <= Len(ev')
                     /\ ev'[i + 1].t = "success" /\ ev'[i + 1].batch = ev'[i].batch
                     /\ IsEntered(ev'[i + 2])
                     /\ RequestsFor(ev'[i].batch) = {}
                     /\ Ids(ev'[i].batch) \cap Ids(outQueue') = {}
                ELSE /\ RequestsFor(ev'[i].batch) = {i + 1}
                     /\ ev'[i + 1].batch = ev'[i].batch
                     /\ \/ AwaitsOutcome(ev'[i].batch)
                        \/ /\ act'.name = "flush" /\ act'.flag
                           /\ i + 2 <= Len(ev')
                           /\ ev'[i + 2].t \in {"success", "failure"}
                           /\ ev'[i + 2].batch = ev'[i].batch]_vars

\* one call in which the beacon took a first batch and rejected the second,
\* which went into a request
C21_Witness ==
  /\ cfg.useBeacon
  /\ \E i \in 1..Len(ev), j \in 1..Len(ev) :
       /\ i < j /\ j < Len(ev)
       /\ IsBeaconOffer(ev[i]) /\ ev[i].msg = "accepted"
       /\ IsBeaconOffer(ev[j]) /\ ev[j].msg \in {"rejected", "threw"}
       /\ IsPostRequest(ev[j + 1]) /\ ev[j + 1].batch = ev[j].batch
  /\ \E k \in 1..Len(net) : net[k].k = "xhr"

(***************************************************************************)
(* C22: the pixel image, one record at a time.                             *)
(***************************************************************************)
\* the pixels whose load or error event would still be acted upon
LoadingImages == {k \in 1..Len(net) : net[k].k = "image" /\ net[k].loading}

IsCallback(e) == e.t \in {"success", "failure"}

\* the step left the tracker as it was
NoEffect ==
  /\ outQueue' = outQueue /\ stored' = stored /\ executingQueue' = executingQueue
  /\ ev' = <<>>
  /\ LoadingImages # {} <=> \E k \in 1..Len(net') : net'[k].k = "image" /\ net'[k].loading

\* C22: without XHR at most one pixel is awaited at a time and it carries the
\* head of the queue alone.  Its load event removes the head and re-enters
\* the drain; its error event clears the executing flag and leaves the queue
\* as it is, with no callback; its timer, with neither event seen, re-enters
\* the drain with the record still queued.  A load or error event of a pixel
\* that is no longer awaited, and a timer after an event, do nothing.
C22_PixelMode ==
  /\ [](~cfg.useXhr =>
          /\ Cardinality(LoadingImages) <= 1
          /\ \A k \in LoadingImages :
               executingQueue /\ outQueue # <<>> /\ net[k].batch = <<outQueue[1]>>)
  /\ [][~cfg.useXhr =>
         /\ \A i \in 1..Len(ev') :
              IsImageSend(ev'[i]) => Len(ev'[i].batch) = 1 /\ ev'[i].batch[1] = outQueue'[1]
         /\ \A i \in 1..Len(ev') : ~IsCallback(ev'[i])
         /\ (act'.name = "imageLoad" /\ act'.flag) =>
              /\ outQueue' = Tail(outQueue)
              /\ ev' # <<>> /\ IsEntered(ev'[1])
         /\ (act'.name = "imageError" /\ act'.flag) =>
              /\ outQueue' = outQueue /\ ~executingQueue' /\ ev' = <<>>
              /\ \A k \in 1..Len(net') : ~net'[k].loading
         /\ (act'.name = "imageTimeout" /\ act'.flag) =>
              /\ outQueue' = outQueue
              /\ ev' # <<>> /\ IsEntered(ev'[1])
         /\ (act'.name \in {"imageLoad", "imageError", "imageTimeout"} /\ ~act'.flag) =>
              NoEffect]_vars

\* the load event of a pixel that had timed out arrives while the pixel sent
\* in its place is awaited: the record stays at the head
C22_Witness ==
  /\ ~cfg.useXhr
  /\ act.name = "imageLoad" /\ ~act.flag
  /\ LoadingImages # {}
  /\ outQueue # <<>> /\ executingQueue

(***************************************************************************)
(* C23: no queued record is lost.                                          *)
(***************************************************************************)
\* the well-formed records the step took out of the queue
Removed ==
  {outQueue[i].id : i \in {j \in 1..Len(outQueue) : IsWellFormed(outQueue[j])}}
    \ Ids(outQueue')

\* an outcome that ends the life of a batch: success, or a failure that
\* will not be retried
IsFinalOutcome(e) ==
  \/ e.t = "success" /\ e.msg \in {"xhr", "beacon"}
  \/ IsAttemptFailure(e) /\ ~e.willRetry

\* the records of the attempts that the step saw end so
Settled ==
  UNION {Ids(ev'[i].batch) : i \in {j \in 1..Len(ev') : IsFinalOutcome(ev'[j])}}
    \cup (IF act'.name = "imageLoad" /\ act'.flag
          THEN UNION {Ids(net[k].batch) : k \in LoadingImages} ELSE {})

\* C23: a well-formed record leaves the queue only in a step in which an
\* attempt that transmitted it ended in success (2xx, beacon accepted, image
\* load) or in a permanent drop (a status that is not retried, a timeout with
\* retries disabled); records behind the batch, and records enqueued while
\* the attempt was in flight, stay.
C23_NoRecordLost == [][Removed \subseteq Settled /\ Removed \subseteq sentQ']_vars

(***************************************************************************)
(* C24: what an immediate oversized send leaves alone.                     *)
(***************************************************************************)
IsOversizedSend(e) == e.t = "send" /\ e.msg = "direct"

DirectRequests(n) == {k \in 1..Len(n) : n[k].k = "direct"}

\* queue, persisted copy and executing flag are as before the step
QueueUntouched ==
  outQueue' = outQueue /\ stored' = stored /\ executingQueue' = executingQueue

\* C24: the enqueueRequest call that sends an oversized record at once
\* leaves the queue, the persisted copy and the executing flag as they were,
\* enters no drain and sends nothing else; the completion of that request
\* leaves them alone too and calls one callback, the failure callback with
\* willRetry false whatever the retry configuration; the record is sent
\* once only.
C24_OversizedFrame ==
  [][/\ (\E i \in 1..Len(ev') : IsOversizedSend(ev'[i])) =>
          /\ act'.name = "enqueueRequest"
          /\ QueueUntouched
          /\ Cardinality({i \in 1..Len(ev') : IsOversizedSend(ev'[i])}) = 1
          /\ \A i \in 1..Len(ev') :
               /\ ~IsEntered(ev'[i]) /\ ~IsQueueSend(ev'[i]) /\ ~IsPreflight(ev'[i])
               /\ IsOversizedSend(ev'[i]) =>
                    Ids(ev'[i].batch) = {nextId} /\ nextId \notin sentD \cup sentQ
          /\ Cardinality(DirectRequests(net')) = Cardinality(DirectRequests(net)) + 1
     /\ act'.name = "directDone" =>
          /\ QueueUntouched
          /\ Len(ev') = 1 /\ IsCallback(ev'[1]) /\ ev'[1].msg = "direct"
          /\ ev'[1].t = "success" <=> isSuccessfulRequest(act'.status)
          /\ ev'[1].t = "failure" => ~ev'[1].willRetry
          /\ Cardinality(DirectRequests(net')) = Cardinality(DirectRequests(net)) - 1
          /\ SelectSeq(net', LAMBDA r : r.k # "direct") = SelectSeq(net, LAMBDA r : r.k # "direct")]_vars

\* the oversized request failed with a status that the retry classifier
\* would retry, while records wait in the queue: willRetry is false
C24_Witness ==
  /\ act.name = "directDone" /\ ~isSuccessfulRequest(act.status)
  /\ shouldRetryForStatusCode(cfg, act.status)
  /\ Len(ev) = 1 /\ ev[1].t = "failure" /\ ev[1].msg = "direct" /\ ~ev[1].willRetry
  /\ outQueue # <<>>

====
